---- MODULE Spec2Model ----
(***************************************************************************)
(* A model of rally_bot.py: the schedule command, the check_events         *)
(* background loop that posts the reminder tiers of every stored event,    *)
(* and the on_reaction_add handler that keeps one vote per user.           *)
(*                                                                         *)
(* Time is counted in whole seconds since midnight of day 0 (UTC).  The    *)
(* only fractional quantity of the program, halfway = total_seconds / 2,   *)
(* is kept exact by carrying every lead time doubled (field twice).        *)
(***************************************************************************)
EXTENDS Integers, Sequences, FiniteSets, TLC

VARIABLES now,           \* the clock reading of the latest check_events tick
          dbReady,       \* setup_database() has created table events
          loopRunning,   \* the check_events loop is started and alive
          events,        \* the rows of table events, in id order
          sentMessages,  \* per event: what was posted about it, in order
          faults,        \* outages and failed deliveries met so far
          lastPass,      \* how the latest check_events pass ended
          q,             \* the argument/result pair of the due-list study
          reactions,     \* Discord's reaction state: who holds which emoji
          handlers,      \* the on_reaction_add coroutines in flight
          lastAdded,     \* per (message, user): the vote emoji added last
          retracted,     \* every remove_reaction call issued so far
          adds           \* number of reaction-add events so far

schedVars == <<now, dbReady, loopRunning, events, sentMessages, faults,
              lastPass>>
voteVars  == <<reactions, handlers, lastAdded, retracted, adds>>
vars == <<now, dbReady, loopRunning, events, sentMessages, faults, lastPass, q,
          reactions, handlers, lastAdded, retracted, adds>>

----------------------------------------------------------------------------
(* Bounds of the model.                                                    *)

MaxEvents == 2        \* rows the events table may hold
MaxFaults == 1        \* outages, missing channels and failed sends in all
MaxRegular == 1       \* events of the regular-tick study
Horizon == 43500      \* last clock reading of the regular-tick study
MaxAdds == 3          \* reaction-add events in one behaviour
MaxFired == 1         \* labels in a reminders_sent argument of the due study

----------------------------------------------------------------------------
(* Configuration and fixed values of the program.                          *)

EVENTS_CHANNEL_ID == 1
COMMANDS_CHANNEL_ID == 2
LoopSeconds == 60
SecondsPerDay == 86400

NoValue == -1         \* Python's None / SQL NULL for numeric fields
Malformed == -2       \* a time or date string strptime rejects

\* dt.isoformat() as stored in column event_time: the date and the time of
\* day, kept apart as the text "YYYY-MM-DDTHH:MM:SS+00:00" keeps them.
isoformat(dt) == [date |-> dt \div SecondsPerDay, time |-> dt % SecondsPerDay]

\* datetime.fromisoformat(iso_time).replace(tzinfo=timezone.utc)
fromisoformat(iso) == iso.date * SecondsPerDay + iso.time

\* A text in column event_time that is not in ISO format, and the test
\* datetime.fromisoformat makes: it raises ValueError when this is FALSE.
MalformedTime == [date |-> Malformed, time |-> Malformed]
IsIsoFormat(iso) == iso.date >= 0 /\ iso.time \in 0..(SecondsPerDay - 1)

\* parse_datetime(time_str, date_str): time_str is a minute of the day,
\* date_str a day number, NoValue when no date was given.
parse_datetime(time_str, date_str, clock) ==
    IF time_str = Malformed \/ date_str = Malformed
    THEN NoValue
    ELSE IF date_str # NoValue
         THEN date_str * SecondsPerDay + time_str * 60
         ELSE LET dt_today == (clock \div SecondsPerDay) * SecondsPerDay
                              + time_str * 60
              IN  IF dt_today < clock THEN dt_today + SecondsPerDay
                                      ELSE dt_today

----------------------------------------------------------------------------
(* check_events: the tier catalog and the due list of one event.           *)

Tier(name, seconds_before) == [name |-> name, twice |-> 2 * seconds_before]

\* The candidates built for total_seconds > 3600.
FarCatalog(total_seconds) ==
    (IF total_seconds > 120        \* halfway = total_seconds / 2 > 60
     THEN <<[name |-> "halfway", twice |-> total_seconds]>>
     ELSE <<>>)
    \o <<Tier("12h", 43200), Tier("6h", 21600), Tier("3h", 10800),
         Tier("1h", 3600), Tier("30m", 1800), Tier("10m", 600)>>

\* NearCatalog with the 10m tier of the far catalog kept.
NearCatalogTenMinutes ==
    <<Tier("30m", 1800), Tier("15m", 900), Tier("10m", 600)>>

\* The candidates built otherwise.
NearCatalog == <<Tier("30m", 1800), Tier("15m", 900)>>

InStartWindow(total_seconds) == -60 <= total_seconds /\ total_seconds <= 0

\* reminders_to_check without the test that "start" was not sent yet.
reminders_to_check_again(total_seconds, reminders_sent) ==
    (IF total_seconds > 3600 THEN FarCatalog(total_seconds) ELSE NearCatalog)
    \o (IF InStartWindow(total_seconds) THEN <<Tier("start", 0)>> ELSE <<>>)

reminders_to_check(total_seconds, reminders_sent) ==
    (IF total_seconds > 3600 THEN FarCatalog(total_seconds) ELSE NearCatalog)
    \o (IF "start" \notin reminders_sent /\ InStartWindow(total_seconds)
        THEN <<Tier("start", 0)>>
        ELSE <<>>)

\* InTierWindow with a window of 60 minutes for 60 seconds.
InTierWindowWide(total_seconds, tier) ==
    /\ 0 <= 2 * total_seconds - tier.twice
    /\ 2 * total_seconds - tier.twice < 7200

\* InTierWindow without the lower comparison: a tier whose window has
\* passed is still due.
InTierWindowLate(total_seconds, tier) ==
    2 * total_seconds - tier.twice < 120

\* InTierWindow with the upper comparison written <= 60.
InTierWindowClosed(total_seconds, tier) ==
    /\ 0 <= 2 * total_seconds - tier.twice
    /\ 2 * total_seconds - tier.twice <= 120

\* 0 <= total_seconds - seconds_before < 60, on the doubled lead.
InTierWindow(total_seconds, tier) ==
    /\ 0 <= 2 * total_seconds - tier.twice
    /\ 2 * total_seconds - tier.twice < 120

\* IsDue without the test that the tier was not sent yet.
IsDueAgain(total_seconds, reminders_sent, tier) ==
    IF tier.name = "start"
    THEN InStartWindow(total_seconds)
    ELSE InTierWindow(total_seconds, tier)

IsDue(total_seconds, reminders_sent, tier) ==
    IF tier.name = "start"
    THEN InStartWindow(total_seconds)
    ELSE tier.name \notin reminders_sent /\ InTierWindow(total_seconds, tier)

RECURSIVE Names(_, _, _)
Names(total_seconds, reminders_sent, to_check) ==
    IF to_check = <<>>
    THEN <<>>
    ELSE (IF IsDue(total_seconds, reminders_sent, Head(to_check))
          THEN <<Head(to_check).name>>
          ELSE <<>>)
         \o Names(total_seconds, reminders_sent, Tail(to_check))

\* reminders_sent is the set of labels of the stored JSON list here; the
\* rows keep the list itself.
due_reminders(total_seconds, reminders_sent) ==
    Names(total_seconds, reminders_sent,
          reminders_to_check(total_seconds, reminders_sent))

Range(s) == {s[i] : i \in 1..Len(s)}

IsStale(total_seconds) == total_seconds < -60

----------------------------------------------------------------------------
(* check_events: one pass over the rows.  st carries the rows, the channel *)
(* log, the number of channel.send calls made by this pass, and whether a  *)
(* call has raised (which ends the pass: nothing in check_events catches); *)
(* fatal tells that what was raised is a ValueError of fromisoformat.      *)

\* for reminder in due_reminders: ... await channel.send(...)
\* The fail_at-th send of the pass raises (fail_at = 0: none does).
RECURSIVE SendAll(_, _, _, _)
SendAll(event_id, due, st, fail_at) ==
    IF due = <<>> \/ st.raised
    THEN st
    ELSE IF st.calls + 1 = fail_at
         THEN [st EXCEPT !.calls = @ + 1, !.raised = TRUE]
         ELSE SendAll(event_id, Tail(due),
                      [st EXCEPT !.calls = @ + 1,
                                 !.log[event_id] = Append(@, Head(due))],
                      fail_at)

\* ProcessRow with the clean-up the comment at the stale test considers:
\* the reminders_sent list of a passed event is emptied.
ProcessRowCleanUp(event_id, st, clock, channel_found, fail_at) ==
    LET row == st.rows[event_id]
        total_seconds == fromisoformat(row.event_time) - clock
        due == due_reminders(total_seconds, Range(row.reminders_sent))
    IN  IF ~IsIsoFormat(row.event_time)
        THEN [st EXCEPT !.raised = TRUE, !.fatal = TRUE]
        ELSE IF IsStale(total_seconds)
        THEN [st EXCEPT !.rows[event_id].reminders_sent = <<>>]
        ELSE IF due = <<>> THEN st
        ELSE IF ~channel_found THEN st
        ELSE LET after == SendAll(event_id, due, st, fail_at)
             IN  IF after.raised
                 THEN after
                 ELSE [after EXCEPT
                         !.rows[event_id].reminders_sent = @ \o due]

\* ProcessRow recording the due tiers in front of the stored list.
ProcessRowNewestFirst(event_id, st, clock, channel_found, fail_at) ==
    LET row == st.rows[event_id]
        total_seconds == fromisoformat(row.event_time) - clock
        due == due_reminders(total_seconds, Range(row.reminders_sent))
    IN  IF ~IsIsoFormat(row.event_time)
        THEN [st EXCEPT !.raised = TRUE, !.fatal = TRUE]
        ELSE IF IsStale(total_seconds) THEN st
        ELSE IF due = <<>> THEN st
        ELSE IF ~channel_found THEN st
        ELSE LET after == SendAll(event_id, due, st, fail_at)
             IN  IF after.raised
                 THEN after
                 ELSE [after EXCEPT
                         !.rows[event_id].reminders_sent = due \o @]

\* The body of the for loop over rows, for the row with this id.
ProcessRow(event_id, st, clock, channel_found, fail_at) ==
    LET row == st.rows[event_id]
        total_seconds == fromisoformat(row.event_time) - clock
        due == due_reminders(total_seconds, Range(row.reminders_sent))
    IN  IF ~IsIsoFormat(row.event_time)
        THEN [st EXCEPT !.raised = TRUE, !.fatal = TRUE]
        ELSE IF IsStale(total_seconds) THEN st
        ELSE IF due = <<>> THEN st
        ELSE IF ~channel_found THEN st
        ELSE LET after == SendAll(event_id, due, st, fail_at)
             IN  IF after.raised
                 THEN after
                 ELSE [after EXCEPT
                         !.rows[event_id].reminders_sent = @ \o due]

RECURSIVE RunRows(_, _, _, _, _)
RunRows(event_id, st, clock, channel_found, fail_at) ==
    IF event_id > Len(st.rows) \/ st.raised
    THEN st
    ELSE RunRows(event_id + 1,
                 ProcessRow(event_id, st, clock, channel_found, fail_at),
                 clock, channel_found, fail_at)

Leads == {43200, 21600, 10800, 3600, 1800, 900, 600, 0}
Offsets == {L + d : L \in Leads, d \in {0, 59, 60}} \cup {-60, -61}
\* Clock readings around every window edge of an event at 12:02.
TickTimes == {722 * 60 - r : r \in Offsets} \cap Nat

\* 1 when the loop was down over a clock reading of TickTimes, else 0.
Downtime(clock) ==
    IF \E t \in TickTimes : now < t /\ t < clock THEN 1 ELSE 0

\* One iteration of the loop at clock reading clock.  failure.at is the
\* send that raises; failure.fatal tells whether the exception is one the
\* tasks.loop machinery does not retry, so that the loop ends with it, as
\* it does with a ValueError.
check_events(clock, channel_found, failure) ==
    /\ loopRunning
    /\ LET st == RunRows(1, [rows |-> events, log |-> sentMessages,
                             calls |-> 0, raised |-> FALSE,
                             fatal |-> FALSE],
                         clock, channel_found, failure.at)
       IN  /\ now' = clock
           /\ events' = st.rows
           /\ sentMessages' = st.log
           /\ loopRunning' = ~(st.raised /\ (st.fatal \/ failure.fatal))
           /\ lastPass' = IF st.raised THEN "raised"
                          ELSE IF channel_found THEN "ok" ELSE "no_channel"
    /\ UNCHANGED <<dbReady, q, voteVars>>

\* on_ready: create the table, start the loop (a no-op on a running loop).
on_ready ==
    /\ dbReady' = TRUE
    /\ loopRunning' = TRUE
    /\ UNCHANGED <<now, events, sentMessages, faults, lastPass, q, voteVars>>

----------------------------------------------------------------------------
(* The schedule command.                                                   *)

NewRow(dt) == [event_time |-> isoformat(dt),
               channel_id |-> EVENTS_CHANNEL_ID,
               message_id |-> NoValue,
               reminders_sent |-> <<>>]

\* args.n is len(args), args.date the date string when two or more were
\* given.  channel_found and send_ok are the outcomes of bot.get_channel
\* and of channel.send for the announcement.
schedule(ctx_channel, time_utc, args, channel_found, send_ok) ==
    /\ dbReady
    /\ Len(events) < MaxEvents
    /\ LET date_str == IF args.n >= 2 THEN args.date ELSE NoValue
           dt == parse_datetime(time_utc, date_str, now)
           event_id == Len(events) + 1
           msg_id == event_id     \* msg.id: the announcement of event_id
       IN  IF ctx_channel # COMMANDS_CHANNEL_ID \/ args.n = 0 \/ dt = NoValue
           THEN UNCHANGED <<events, sentMessages>>
           ELSE IF ~channel_found \/ ~send_ok
                THEN /\ events' = Append(events, NewRow(dt))
                     /\ sentMessages' = Append(sentMessages, <<>>)
                ELSE /\ sentMessages' = Append(sentMessages, <<"announce">>)
                     /\ events' = Append(events,
                            [NewRow(dt) EXCEPT !.message_id = msg_id])
    /\ UNCHANGED <<now, dbReady, loopRunning, lastPass, q, voteVars>>

----------------------------------------------------------------------------
(* Inputs of the scheduler studies.                                        *)

\* The commands: "12:02" with no date and "12:02" on day 0, each with every
\* outcome of the announcement, and one command for each way to be rejected.
Deliveries == {<<TRUE, TRUE>>, <<TRUE, FALSE>>, <<FALSE, TRUE>>}

Command(ctx_channel, time_utc, args, delivery) ==
    [ctx_channel |-> ctx_channel, time_utc |-> time_utc, args |-> args,
     channel_found |-> delivery[1], send_ok |-> delivery[2]]

Commands ==
    {Command(COMMANDS_CHANNEL_ID, 722, [n |-> 1, date |-> NoValue], d) :
        d \in Deliveries}
    \cup {Command(COMMANDS_CHANNEL_ID, 722, [n |-> 2, date |-> 0], d) :
        d \in Deliveries}
    \cup {Command(EVENTS_CHANNEL_ID, 722, [n |-> 1, date |-> NoValue],
                  <<TRUE, TRUE>>),
          Command(COMMANDS_CHANNEL_ID, 722, [n |-> 0, date |-> NoValue],
                  <<TRUE, TRUE>>),
          Command(COMMANDS_CHANNEL_ID, Malformed, [n |-> 1, date |-> NoValue],
                  <<TRUE, TRUE>>),
          Command(COMMANDS_CHANNEL_ID, 722, [n |-> 2, date |-> Malformed],
                  <<TRUE, TRUE>>)}

\* What a pass can meet: the channel missing from the cache, or the k-th
\* send raising, with an exception the loop survives or not.
NoFailure == [at |-> 0, fatal |-> FALSE]
Passes == {<<TRUE, NoFailure>>, <<FALSE, NoFailure>>}
          \cup {<<TRUE, [at |-> k, fatal |-> f]>> :
                    k \in 1..MaxEvents, f \in BOOLEAN}

\* A pass at any later clock reading of TickTimes, with any outcome the
\* fault budget still allows.
Tick == \E clock \in {t \in TickTimes : t > now} :
            LET left == MaxFaults - faults - Downtime(clock)
            IN  /\ left >= 0
                /\ \E pass \in Passes :
                    LET failed == IF pass[1] /\ pass[2].at = 0 THEN 0 ELSE 1
                    IN  /\ failed <= left
                        /\ faults' = MaxFaults - left + failed
                        /\ check_events(clock, pass[1], pass[2])

Schedule == \E c \in Commands :
                /\ faults' = faults
                         + (IF c.channel_found /\ c.send_ok THEN 0 ELSE 1)
                /\ faults' <= MaxFaults
                /\ schedule(c.ctx_channel, c.time_utc, c.args,
                            c.channel_found, c.send_ok)

SchedInit ==
    /\ now = 0
    /\ dbReady = FALSE
    /\ loopRunning = FALSE
    /\ events = <<>>
    /\ sentMessages = <<>>
    /\ faults = 0
    /\ lastPass = "none"

IdleVote ==
    /\ reactions = {}
    /\ handlers = {}
    /\ lastAdded = {}
    /\ retracted = {}
    /\ adds = 0

Init == SchedInit /\ IdleVote /\ q = <<>>

Next == on_ready \/ Schedule \/ Tick

Spec == Init /\ [][Next]_vars

----------------------------------------------------------------------------
(* The regular-tick study: the events are scheduled when the bot comes up, *)
(* at second 0 or 1 of a minute, and check_events then runs every          *)
(* LoopSeconds with the channel present and every send succeeding.         *)

BootTimes == {0, 1}
RegMinutes == {0, 1, 2, 11, 16, 31, 60, 61, 120, 181, 361, 721, 722}
RegCommands ==
    {Command(COMMANDS_CHANNEL_ID, m, [n |-> 2, date |-> 0], <<TRUE, TRUE>>) :
        m \in RegMinutes}
    \cup {Command(COMMANDS_CHANNEL_ID, 722, [n |-> 1, date |-> NoValue],
                  <<TRUE, TRUE>>)}

RegSchedule == \E c \in RegCommands :
                   /\ lastPass = "none"
                   /\ Len(events) < MaxRegular
                   /\ schedule(c.ctx_channel, c.time_utc, c.args,
                               c.channel_found, c.send_ok)
                   /\ UNCHANGED faults

RegTick == /\ now + LoopSeconds <= Horizon
           /\ check_events(now + LoopSeconds, TRUE, NoFailure)
           /\ UNCHANGED faults

RegInit == /\ now \in BootTimes
           /\ dbReady = FALSE
           /\ loopRunning = FALSE
           /\ events = <<>>
           /\ sentMessages = <<>>
           /\ faults = 0
           /\ lastPass = "none"
           /\ IdleVote
           /\ q = <<>>

RegNext == on_ready \/ RegSchedule \/ RegTick

SpecRegular == RegInit /\ [][RegNext]_vars

\* The same with the scheduling tasks.loop gives: once started, the loop
\* body runs again LoopSeconds after each pass for as long as it is alive.
SpecRegularFair == RegInit /\ [][RegNext]_vars /\ WF_vars(RegTick)

\* The regular ticks with the channel missing or a send raising in some
\* passes.
RetryTick ==
    /\ now + LoopSeconds <= Horizon
    /\ \E pass \in Passes :
        LET failed == IF pass[1] /\ pass[2].at = 0 THEN 0 ELSE 1
        IN  /\ faults' = faults + failed
            /\ faults' <= MaxFaults
            /\ check_events(now + LoopSeconds, pass[1], pass[2])

RetryNext == on_ready \/ RegSchedule \/ RetryTick

SpecRetry == RegInit /\ [][RetryNext]_vars

----------------------------------------------------------------------------
(* The due-list study: due_reminders applied to one argument pair.         *)

Labels == {"halfway", "12h", "6h", "3h", "1h", "30m", "15m", "10m", "start"}

DueSeconds == {L + d : L \in Leads \cup {120, 7200}, d \in -2..61}
              \cup {1830} \cup (-60..-58)
DueSent == {sent \in SUBSET Labels : Cardinality(sent) <= MaxFired}
           \cup {Labels}

DueInit == /\ q \in [total_seconds : DueSeconds, reminders_sent : DueSent,
                     due : {<<>>}, done : {FALSE}]
           /\ SchedInit
           /\ IdleVote

Evaluate == /\ ~q.done
            /\ q' = [q EXCEPT !.done = TRUE,
                              !.due = due_reminders(q.total_seconds,
                                                    q.reminders_sent)]
            /\ UNCHANGED <<schedVars, voteVars>>

DueNext == Evaluate

SpecDue == DueInit /\ [][DueNext]_vars

----------------------------------------------------------------------------
(* The stored-table study: the bot comes up on an events.db left by        *)
(* earlier runs (CREATE TABLE IF NOT EXISTS keeps its rows).  Column       *)
(* event_time is declared TEXT and nothing constrains it: a row may hold a *)
(* text that is not in ISO format.  Every send of the study succeeds.      *)

StoredTimes == {isoformat(722 * 60), MalformedTime}

StoredTables ==
    UNION {[1..n -> {[NewRow(0) EXCEPT !.event_time = t] : t \in StoredTimes}] :
            n \in 1..MaxEvents}

StoreInit == /\ events \in StoredTables
             /\ sentMessages = [id \in 1..Len(events) |-> <<>>]
             /\ now = 0
             /\ dbReady = FALSE
             /\ loopRunning = FALSE
             /\ faults = 0
             /\ lastPass = "none"
             /\ IdleVote
             /\ q = <<>>

StoreTick == \E clock \in {t \in TickTimes : t > now} :
                 /\ faults' = faults + Downtime(clock)
                 /\ faults' <= MaxFaults
                 /\ check_events(clock, TRUE, NoFailure)

StoreNext == on_ready \/ StoreTick

SpecStore == StoreInit /\ [][StoreNext]_vars

----------------------------------------------------------------------------
(* on_reaction_add.  A reaction is <<message, emoji, user>>.  A handler in *)
(* flight is at one of its awaits: listing the users of the reaction at    *)
(* position idx of message.reactions, or removing the user's reaction      *)
(* found there.                                                            *)

vote_emojis == {"yes", "no", "maybe"}
\* message.reactions of a message, in the order schedule seeds the three
\* vote emojis; any other emoji comes after them.
MessageReactions == <<"yes", "no", "maybe", "thumbsup">>

MessageChannel(message) ==
    IF message = "announcement" THEN EVENTS_CHANNEL_ID ELSE COMMANDS_CHANNEL_ID

IsBot(user) == user = "bot"

\* The three early returns, without the test of user.bot.
HandlesBots(message, emoji, user) ==
    /\ MessageChannel(message) = EVENTS_CHANNEL_ID
    /\ emoji \in vote_emojis

\* The three early returns of the handler: TRUE when it goes on.
Handles(message, emoji, user) ==
    /\ ~IsBot(user)
    /\ MessageChannel(message) = EVENTS_CHANNEL_ID
    /\ emoji \in vote_emojis

\* The test of the for loop written with == for !=.
IsSameVote(react, emoji) == react = emoji /\ react \in vote_emojis

\* if react.emoji != reaction.emoji and react.emoji in vote_emojis
IsOtherVote(react, emoji) == react # emoji /\ react \in vote_emojis

\* The loop stopping at the first other vote emoji it meets.
AwaitsFirstOnly(emoji, from) ==
    LET here == {i \in from..Len(MessageReactions) : from = 1 /\
                    IsOtherVote(MessageReactions[i], emoji)}
    IN  IF here = {} THEN 0
        ELSE CHOOSE i \in here : \A j \in here : i <= j

\* The first position at or after from where the loop awaits, 0 if none.
Awaits(emoji, from) ==
    LET here == {i \in from..Len(MessageReactions) :
                    IsOtherVote(MessageReactions[i], emoji)}
    IN  IF here = {} THEN 0
        ELSE CHOOSE i \in here : \A j \in here : i <= j

\* The handler h moved on to its next await from position from; the empty
\* set when the loop is over.
Resume(h, from) ==
    IF Awaits(h.emoji, from) = 0
    THEN {}
    ELSE {[h EXCEPT !.idx = Awaits(h.emoji, from), !.at = "users"]}

\* A user adds a reaction: Discord records it and dispatches the handler,
\* which runs to its first await.
AddReaction(message, emoji, user) ==
    /\ adds < MaxAdds
    /\ <<message, emoji, user>> \notin reactions
    /\ adds' = adds + 1
    /\ reactions' = reactions \cup {<<message, emoji, user>>}
    /\ lastAdded' = IF emoji \in vote_emojis
                    THEN {t \in lastAdded : t[1] # message \/ t[3] # user}
                         \cup {<<message, emoji, user>>}
                    ELSE lastAdded
    /\ handlers' = handlers \cup
            (IF Handles(message, emoji, user)
             THEN Resume([n |-> adds + 1, message |-> message,
                          emoji |-> emoji, user |-> user,
                          idx |-> 0, at |-> "users"], 1)
             ELSE {})
    /\ UNCHANGED <<retracted, schedVars, q>>

\* async for u in react.users(): if u.id == user.id
ListUsers(h) ==
    /\ h \in handlers
    /\ h.at = "users"
    /\ handlers' = (handlers \ {h}) \cup
            (IF <<h.message, MessageReactions[h.idx], h.user>> \in reactions
             THEN {[h EXCEPT !.at = "remove"]}
             ELSE Resume(h, h.idx + 1))
    /\ UNCHANGED <<reactions, lastAdded, retracted, adds, schedVars, q>>

\* await message.remove_reaction(react.emoji, user); a discord.Forbidden
\* or discord.HTTPException (ok = FALSE) is swallowed.
RemoveReaction(h, ok) ==
    /\ h \in handlers
    /\ h.at = "remove"
    /\ LET target == <<h.message, MessageReactions[h.idx], h.user>>
       IN  /\ reactions' = IF ok THEN reactions \ {target} ELSE reactions
           /\ retracted' = retracted \cup
                    {[by |-> <<h.message, h.emoji, h.user>>,
                      target |-> target, ok |-> ok]}
    /\ handlers' = (handlers \ {h}) \cup Resume(h, h.idx + 1)
    /\ UNCHANGED <<lastAdded, adds, schedVars, q>>

\* The reaction-add events of the study.
AddInputs ==
    {<<"announcement", e, "alice">> : e \in vote_emojis \cup {"thumbsup"}}
    \cup {<<"announcement", e, u>> : e \in {"yes", "no"}, u \in {"bob", "bot"}}
    \cup {<<"command", e, "alice">> : e \in {"yes", "no"}}

Add == \E a \in AddInputs : AddReaction(a[1], a[2], a[3])
List == \E h \in handlers : ListUsers(h)
Remove == \E h \in handlers, ok \in BOOLEAN : RemoveReaction(h, ok)

VoteInit == SchedInit /\ IdleVote /\ q = <<>>

VoteNext == Add \/ List \/ Remove

SpecVote == VoteInit /\ [][VoteNext]_vars

\* The same with every handler finished before the next reaction is added.
AddWhenIdle == handlers = {} /\ Add

SeqNext == AddWhenIdle \/ List \/ Remove

SpecVoteSeq == VoteInit /\ [][SeqNext]_vars

----------------------------------------------------------------------------
(* Notions the properties are stated with.                                 *)

RECURSIVE Count(_, _)
Count(x, seq) ==
    IF seq = <<>> THEN 0
    ELSE (IF Head(seq) = x THEN 1 ELSE 0) + Count(x, Tail(seq))

EventIds == 1..Len(events)

\* event_time - now for the stored row.
Remaining(id) ==
    events[id].event_time.date * SecondsPerDay + events[id].event_time.time
    - now

\* In the regular-tick study every event is scheduled at boot, second
\* now % LoopSeconds: what it had left when it was created.
CreatedRemaining(id) == Remaining(id) + now - (now % LoopSeconds)

----------------------------------------------------------------------------
(* The reminder properties.                                                *)

\* C1: whatever the ticks and schedule commands were, the stored
\* reminders_sent list of every event holds each tier label at most once.
C1_NoLabelTwice ==
    \A id \in EventIds :
        \A i, j \in 1..Len(events[id].reminders_sent) :
            i # j => events[id].reminders_sent[i] # events[id].reminders_sent[j]

\* An event whose 12h and 6h tiers are recorded is evaluated once more at
\* the low edge of the 6h window; with no outage so far the pass one
\* second inside the window's high edge has run as well.
C1_Witness ==
    \E id \in EventIds :
        /\ {"12h", "6h"} \subseteq Range(events[id].reminders_sent)
        /\ Remaining(id) = 21600
        /\ faults = 0

\* C2: at every step and for every event, the start notice has been posted
\* at most once; a step that posts it is a pass that sees the event with
\* -60 <= remaining <= 0; and a pass that sees the event in that window,
\* finds the channel and has no send raise leaves it posted exactly once.
C2_StartStep ==
    \A id \in 1..Len(events') :
        LET before == IF id \in EventIds
                      THEN Count("start", sentMessages[id]) ELSE 0
            after == Count("start", sentMessages'[id])
            seen == id \in EventIds /\ now' > now /\ InStartWindow(Remaining(id)')
        IN  /\ after <= 1
            /\ after > before => seen
            /\ seen /\ lastPass' = "ok" => after = 1

C2_StartOnce == [][C2_StartStep]_vars

\* The start notice is out, and a second pass inside the window (at its
\* far edge, with none skipped or failed before) has not repeated it.
C2_Witness ==
    \E id \in EventIds :
        /\ Count("start", sentMessages[id]) = 1
        /\ Remaining(id) = -60
        /\ lastPass = "ok"
        /\ faults = 0

\* C3: an event created with 7200 s left and checked every 60 s has had
\* its halfway reminder posted exactly once as soon as less than 3600 s
\* are left, and never before 3660 s are left.
C3_HalfwayOnce ==
    \A id \in EventIds :
        CreatedRemaining(id) = 7200 =>
            /\ Remaining(id) >= 3660 => Count("halfway", sentMessages[id]) = 0
            /\ Remaining(id) < 3600 => Count("halfway", sentMessages[id]) = 1

\* C4: with a pass every 60 s, a present channel and no failing send, each
\* tier with lead L of an event created with at least L + 60 s left has
\* been posted exactly once as soon as less than L s are left, and not at
\* all while L + 60 s or more are left.
FixedTiers == {Tier("12h", 43200), Tier("6h", 21600), Tier("3h", 10800),
               Tier("1h", 3600), Tier("30m", 1800), Tier("15m", 900),
               Tier("10m", 600)}

C4_EveryTierOnce ==
    \A id \in EventIds : \A tier \in FixedTiers :
        2 * CreatedRemaining(id) >= tier.twice + 120 =>
            /\ 2 * Remaining(id) >= tier.twice + 120 =>
                    Count(tier.name, sentMessages[id]) = 0
            /\ 2 * Remaining(id) < tier.twice =>
                    Count(tier.name, sentMessages[id]) = 1

\* C5: a step never changes the row of an event that is more than 60 s
\* past at the step's clock reading, and posts nothing about it.
C5_StaleStep ==
    \A id \in EventIds :
        Remaining(id)' < -60 =>
            /\ events'[id] = events[id]
            /\ sentMessages'[id] = sentMessages[id]

C5_StaleUntouched == [][C5_StaleStep]_vars

\* A pass has run over an event that started (its start notice is
\* recorded) and is now 61 s past.
C5_Witness ==
    \E id \in EventIds :
        /\ "start" \in Range(events[id].reminders_sent)
        /\ Remaining(id) = -61
        /\ lastPass = "ok"

\* C6: for every remaining >= -60 and every set of sent labels, the due
\* list is the reference list: the tiers of the applicable catalog (over
\* 3600 s: halfway when remaining / 2 > 60, 12h, 6h, 3h, 1h, 30m, 10m; else
\* 30m, 15m), in that order, that are not sent and whose lead L has
\* 0 <= remaining - L < 60, then start when it is not sent and
\* -60 <= remaining <= 0.  With 1830 s left and nothing sent it is <<30m>>.
RefLeadTwice(label, remaining) ==
    CASE label = "halfway" -> remaining
      [] label = "12h" -> 86400
      [] label = "6h" -> 43200
      [] label = "3h" -> 21600
      [] label = "1h" -> 7200
      [] label = "30m" -> 3600
      [] label = "15m" -> 1800
      [] label = "10m" -> 1200

RefCatalog(remaining) ==
    IF remaining > 3600
    THEN (IF remaining > 120 THEN <<"halfway">> ELSE <<>>)
         \o <<"12h", "6h", "3h", "1h", "30m", "10m">>
    ELSE <<"30m", "15m">>

DueReference(remaining, sent) ==
    LET Open(label) ==
            /\ label \notin sent
            /\ 2 * remaining >= RefLeadTwice(label, remaining)
            /\ 2 * remaining < RefLeadTwice(label, remaining) + 120
    IN  SelectSeq(RefCatalog(remaining), Open)
        \o (IF "start" \notin sent /\ remaining >= -60 /\ remaining <= 0
            THEN <<"start">> ELSE <<>>)

C6_DueIsReference ==
    q.done =>
        /\ q.due = DueReference(q.total_seconds, q.reminders_sent)
        /\ (q.total_seconds = 1830 /\ q.reminders_sent = {}
                => q.due = <<"30m">>)

C6_Witness ==
    /\ q.done
    /\ q.total_seconds = 1830
    /\ q.reminders_sent = {}
    /\ q.due = <<"30m">>

----------------------------------------------------------------------------
(* The vote properties.                                                    *)

\* The vote emojis the user holds on the message.
Held(message, user) ==
    {e \in {"yes", "no", "maybe"} : <<message, e, user>> \in reactions}

\* Last vote additions of human users on messages of the events channel.
LastVotes ==
    {t \in lastAdded : t[3] # "bot" /\ MessageChannel(t[1]) = EVENTS_CHANNEL_ID}

Settled == handlers = {} /\ \A r \in retracted : r.ok

\* C7: with every handler finished before the next reaction is added and
\* every retraction succeeding, a user holds exactly the vote emoji added
\* last: after A then B only B, after A again only A.
C7_LastVoteOnly ==
    Settled => \A t \in LastVotes : Held(t[1], t[3]) = {t[2]}

\* alice added yes, no and yes again: both were retracted once, yes is held.
C7_Witness ==
    /\ Settled
    /\ adds = 3
    /\ <<"announcement", "yes", "alice">> \in lastAdded
    /\ Held("announcement", "alice") = {"yes"}
    /\ \E r1, r2 \in retracted :
            /\ r1.target = <<"announcement", "yes", "alice">>
            /\ r2.target = <<"announcement", "no", "alice">>

\* C8: however the handlers of one user's additions interleave, once all
\* have finished and no retraction failed the user holds at most one vote
\* emoji on a message of the events channel.
C8_AtMostOneVote ==
    Settled =>
        \A t \in LastVotes : Cardinality(Held(t[1], t[3])) <= 1

\* Two handlers of alice overlapped: each retracted the other's emoji.
C8_Witness ==
    /\ Settled
    /\ \E r1, r2 \in retracted :
            /\ r1.by = <<"announcement", "yes", "alice">>
            /\ r1.target = <<"announcement", "no", "alice">>
            /\ r2.by = <<"announcement", "no", "alice">>
            /\ r2.target = <<"announcement", "yes", "alice">>
    /\ Cardinality(Held("announcement", "alice")) <= 1

\* C9: however the handlers interleave, once all have finished and no
\* retraction failed the user still holds the vote emoji added last.
C9_FreshestWins ==
    Settled => \A t \in LastVotes : t \in reactions

\* C10: every retraction issued is for the user, on the message, of a
\* reaction-add by a human on a message of the events channel with a vote
\* emoji, and is of another vote emoji; and a reaction disappears only as
\* the target of such a retraction.
C10_Step ==
    /\ \A r \in retracted' :
            /\ r.by[3] # "bot"
            /\ MessageChannel(r.by[1]) = EVENTS_CHANNEL_ID
            /\ r.by[2] \in {"yes", "no", "maybe"}
            /\ r.target[1] = r.by[1]
            /\ r.target[3] = r.by[3]
            /\ r.target[2] \in {"yes", "no", "maybe"}
            /\ r.target[2] # r.by[2]
    /\ \A t \in reactions \ reactions' :
            \E r \in retracted' : r.target = t /\ r.ok

C10_OnlyOwnOtherVotes == [][C10_Step]_vars

\* alice's yes was retracted while bob's yes on the same message stays.
C10_Witness ==
    /\ handlers = {}
    /\ <<"announcement", "yes", "bob">> \in reactions
    /\ <<"announcement", "yes", "alice">> \notin reactions
    /\ \E r \in retracted :
            r.target = <<"announcement", "yes", "alice">> /\ r.ok

----------------------------------------------------------------------------
(* The dispatcher properties.  sentMessages[id] is the sequence of calls   *)
(* the program has made on the events channel about event id.  The        *)
(* program calls channel.send (lines 151 and 232..296) and nothing else    *)
(* on a channel or a message it has posted, so that every entry is         *)
(* "announce" or the label of a reminder; a request to delete a message    *)
(* would be an entry "delete".                                             *)

ReminderPosts(id) ==
    {k \in 1..Len(sentMessages[id]) : sentMessages[id][k] \in Labels}

\* C11: whenever an event has two reminder posts, a request to delete the
\* earlier reminder message lies between the earlier post and the next one.
C11_DeleteBeforeRepost ==
    \A id \in EventIds : \A i, j \in ReminderPosts(id) :
        i < j => \E k \in (i + 1)..(j - 1) : sentMessages[id][k] = "delete"

\* C12: once the start notice of an event is posted, requests to delete
\* the latest reminder message and the announcement follow eventually, and
\* none is made before 600 s have passed since the event's start window.
Cleaned(id) ==
    /\ id \in EventIds
    /\ \E k \in 1..Len(sentMessages[id]) : sentMessages[id][k] = "delete"
    /\ \E k \in 1..Len(sentMessages[id]) :
            sentMessages[id][k] = "delete_announce"

C12_DeferredCleanup ==
    /\ \A id \in 1..MaxRegular :
            (id \in EventIds /\ Count("start", sentMessages[id]) > 0)
                ~> Cleaned(id)
    /\ [](\A id \in EventIds : Cleaned(id) => Remaining(id) <= -600)

\* C13: a pass over a table with a row whose event_time is not in ISO
\* format leaves that row as it was, records for every other row the tiers
\* due at the pass, and leaves the loop running.
C13_Step ==
    (now' > now /\ \E id \in EventIds : ~IsIsoFormat(events[id].event_time))
        => /\ loopRunning'
           /\ \A id \in EventIds :
                IF IsIsoFormat(events[id].event_time)
                THEN events'[id].reminders_sent =
                        events[id].reminders_sent
                        \o due_reminders(Remaining(id)',
                                         Range(events[id].reminders_sent))
                ELSE /\ events'[id] = events[id]
                     /\ sentMessages'[id] = sentMessages[id]

C13_MalformedSkipped == [][C13_Step]_vars

\* The due list the pass of this step builds for the row.
DueInStep(id) ==
    due_reminders(Remaining(id)', Range(events[id].reminders_sent))

\* C14: in a pass where a send raises, every event that comes after an
\* event whose due tiers were not recorded has its own due tiers posted
\* and recorded.
C14_Step ==
    (now' > now /\ lastPass' = "raised")
        => \A id \in EventIds :
            (\E i \in 1..(id - 1) :
                DueInStep(i) # <<>> /\ events'[i] = events[i])
                => /\ events'[id].reminders_sent =
                        events[id].reminders_sent \o DueInStep(id)
                   /\ sentMessages'[id] = sentMessages[id] \o DueInStep(id)

C14_FailureIsLocal == [][C14_Step]_vars

\* The due list the latest pass built for the row, as long as the row is
\* as that pass found it.
DueAtLastPass(id) ==
    due_reminders(Remaining(id), Range(events[id].reminders_sent))

\* C15: a pass in which a send raises leaves an event with its due tiers
\* unrecorded; and at the pass LoopSeconds after a pass that raised, every
\* tier left unrecorded by it is due again, and is posted when that pass
\* succeeds.
C15_Step ==
    /\ (now' > now /\ lastPass' = "raised")
            => \E id \in EventIds :
                    DueInStep(id) # <<>> /\ events'[id] = events[id]
    /\ (now' = now + LoopSeconds /\ lastPass = "raised")
            => \A id \in EventIds :
                /\ Range(DueAtLastPass(id)) \subseteq Range(DueInStep(id))
                /\ lastPass' = "ok"
                        => sentMessages'[id] =
                                sentMessages[id] \o DueInStep(id)

C15_RetriedNextTick == [][C15_Step]_vars

\* What the step posts about the row and what it records in it.
NewPosts(id) ==
    {sentMessages'[id][k] :
        k \in (Len(sentMessages[id]) + 1)..Len(sentMessages'[id])}

NewRecords(id) ==
    Range(events'[id].reminders_sent) \ Range(events[id].reminders_sent)

\* C16: a step posts or records a tier other than start only at a clock
\* reading with L <= remaining < L + 60 for the tier's lead L; once less
\* than L is left, no step posts or records the tier, whether or not a
\* pass fell inside its window.
C16_Step ==
    \A id \in EventIds :
        /\ \A label \in (NewPosts(id) \cup NewRecords(id)) \ {"start"} :
                \E tier \in FixedTiers :
                    /\ tier.name = label
                    /\ tier.twice <= 2 * Remaining(id)'
                    /\ 2 * Remaining(id)' < tier.twice + 120
        /\ \A tier \in FixedTiers :
                2 * Remaining(id)' < tier.twice
                    => tier.name \notin NewPosts(id) \cup NewRecords(id)

C16_NeverFiredLate == [][C16_Step]_vars

\* The loop was down over the whole 6h window of an event whose 12h
\* reminder was out; passes have run since and the 3h reminder is out.
C16_Witness ==
    \E id \in EventIds :
        /\ sentMessages[id] = <<"announce", "12h", "3h">>
        /\ events[id].reminders_sent = <<"12h", "3h">>
        /\ Remaining(id) = 10800
        /\ lastPass = "ok"

\* C17: whenever 3600 s or less are left, the near catalog suppresses no
\* tier it leaves out (12h, 6h, 3h, 1h): each of them that is not sent and
\* has 0 <= remaining - L < 60 is in the due list (the claim: because none
\* has).
LongTiers == {Tier("12h", 43200), Tier("6h", 21600), Tier("3h", 10800),
              Tier("1h", 3600)}

C17_NearCatalogComplete ==
    (q.done /\ q.total_seconds <= 3600) =>
        \A tier \in LongTiers :
            LET open == /\ 0 <= 2 * q.total_seconds - tier.twice
                        /\ 2 * q.total_seconds - tier.twice < 120
            IN  (open /\ tier.name \notin q.reminders_sent)
                    => tier.name \in Range(q.due)

\* The tiers of the row that were not sent and whose window opened after
\* the previous pass and at or before the pass of this step.
OpenedSince(id) ==
    {tier \in FixedTiers :
        /\ tier.name \notin Range(events[id].reminders_sent)
        /\ 2 * Remaining(id) >= tier.twice + 120
        /\ 2 * Remaining(id)' < tier.twice + 120}

\* C18, as first stated, on its own example: a successful pass that
\* follows an outage over the windows of several tiers of an event has
\* more than one tier in the event's due list, and posts them.
C18_OutageStep ==
    (now' > now /\ lastPass' = "ok")
        => \A id \in EventIds :
                Cardinality(OpenedSince(id)) > 1
                    => Cardinality(NewPosts(id)) > 1

C18_Step ==
    \A id \in EventIds :
        /\ Len(sentMessages'[id]) <= Len(sentMessages[id]) + 1
        /\ Len(events'[id].reminders_sent)
                <= Len(events[id].reminders_sent) + 1

FiredLabels == {"12h", "6h", "3h", "1h", "30m", "15m", "start"}

C19_OnlyFiredLabels ==
    \A id \in EventIds :
        /\ Range(events[id].reminders_sent) \subseteq FiredLabels
        /\ Range(sentMessages[id]) \subseteq FiredLabels \cup {"announce"}

\* A pass has run with exactly 600 s left, where a 10m tier would be due,
\* over an event whose 1h and 15m reminders are recorded.
C19_Witness ==
    \E id \in EventIds :
        /\ {"1h", "15m"} \subseteq Range(events[id].reminders_sent)
        /\ Remaining(id) = 600
        /\ lastPass = "ok"

\* The lead time of a label; halfway has none that is fixed.
LeadOf(label) ==
    CASE label = "12h" -> 43200
      [] label = "6h" -> 21600
      [] label = "3h" -> 10800
      [] label = "1h" -> 3600
      [] label = "30m" -> 1800
      [] label = "15m" -> 900
      [] label = "10m" -> 600
      [] label = "start" -> 0
      [] OTHER -> -1

Decreasing(labels) ==
    /\ \A i \in 1..Len(labels) : LeadOf(labels[i]) >= 0
    /\ \A i, j \in 1..Len(labels) :
            i < j => LeadOf(labels[i]) > LeadOf(labels[j])

\* C20: with a clock that never goes back, the labels of every event's
\* reminders_sent list, and the reminders posted about it, are in strictly
\* decreasing order of lead time, so that start (lead 0) comes last and
\* nothing follows it.
C20_DecreasingLeads ==
    \A id \in EventIds :
        /\ Decreasing(events[id].reminders_sent)
        /\ Decreasing(SelectSeq(sentMessages[id],
                                LAMBDA m : m # "announce"))

\* An event that has had all its seven reminders.
C20_Witness ==
    \E id \in EventIds :
        events[id].reminders_sent =
            <<"12h", "6h", "3h", "1h", "30m", "15m", "start">>

====
